---- MODULE Spec2Model ----
(***************************************************************************)
(* Model of src/main_file.cpp: the texture cache (loadTex), the OBJ+MTL    *)
(* importer (loadOBJ), and the two-pass frame loop of main.                *)
(*                                                                         *)
(* Floats are modelled as integers in thousandths: 1.0f is 1000 and the    *)
(* transparency threshold 0.999f is 999.  Strings are TLA+ strings, the    *)
(* empty std::string is "".  The camera (ax, ay, sx, sy, aspect, MVP) is   *)
(* not part of the model: no mesh, texture or depth state reads it.        *)
(***************************************************************************)
EXTENDS Integers, Sequences, FiniteSets, TLC

\* ------------------------------------------------------------------ bounds
MaxShapes == 2
MaxFaces == 2
MaxFrames == 2

\* ------------------------------------------------- the files on the disk
\* Image files stbi_load can decode; every other path fails to decode.
Decodable == {"glass.png", "sand.png"}

\* The material list M that tinyobj::LoadObj returns (0-based in the code,
\* so the code's M[mid] is M[mid + 1] here).
M ==
  << [name |-> "water", diffuse |-> <<0, 300, 800>>,     dissolve |-> 400,  diffuse_texname |-> ""],
     [name |-> "Water", diffuse |-> <<100, 200, 900>>,   dissolve |-> 999,  diffuse_texname |-> "missing.png"],
     [name |-> "glass", diffuse |-> <<900, 900, 1000>>,  dissolve |-> 500,  diffuse_texname |-> "glass.png"],
     [name |-> "sand",  diffuse |-> <<800, 700, 400>>,   dissolve |-> 1000, diffuse_texname |-> "sand.png"],
     [name |-> "rock",  diffuse |-> <<500, 500, 500>>,   dissolve |-> 998,  diffuse_texname |-> ""] >>

MaterialIds == -1 .. (Len(M) - 1)

Paths == {M[i].diffuse_texname : i \in 1..Len(M)} \ {""}

\* The attribute pool A: flat float arrays, 3 per position, 2 per texcoord.
A ==
  [ vertices  |-> <<0, 0, 0,   1000, 0, 0,   0, 1000, 0,   1000, 1000, 0>>,
    texcoords |-> <<200, 200,   700, 300>> ]

NumVertices == Len(A.vertices) \div 3
NumTexcoords == Len(A.texcoords) \div 2

ShapeNames == {"Water", "water", "Glass"}

\* Vertex counts a face may have in the parsed file.
FaceVertexCounts == {0, 3, 4}

RECURSIVE Sum(_)
Sum(s) == IF s = <<>> THEN 0 ELSE Head(s) + Sum(Tail(s))

SeqsUpTo(set, n) == UNION {[1..k -> set] : k \in 0..n}

\* A shape_t as LoadObj yields it: one material id per face, one index_t
\* per face vertex.
Shape(name, mid, nfv, withUV) ==
  [ name |-> name,
    material_ids |-> [f \in 1..Len(nfv) |-> mid],
    num_face_vertices |-> nfv,
    indices |-> [k \in 1..Sum(nfv) |->
                   [vertex_index |-> (k - 1) % NumVertices,
                    texcoord_index |-> IF withUV THEN (k - 1) % NumTexcoords ELSE -1]] ]

\* Files that vary names and materials over single textured triangles.
MaterialShapes == {Shape(n, mid, <<3>>, TRUE) : n \in ShapeNames, mid \in MaterialIds}

\* Single-shape files that vary the face list.
GeometryShapes ==
  {Shape("Glass", 2, nfv, uv) : nfv \in SeqsUpTo(FaceVertexCounts, MaxFaces), uv \in BOOLEAN}

Files == SeqsUpTo(MaterialShapes, MaxShapes) \cup {<<s>> : s \in GeometryShapes}

\* ------------------------------------------------------------------ state
VARIABLES
  pc,        \* position in main
  parseOK,   \* whether tinyobj::LoadObj can parse the scene file
  S,         \* the shapes of the scene file
  si,        \* loadOBJ: index of the next shape of the for loop
  meshes,    \* std::vector<Mesh> meshes
  texCache,  \* std::map<std::string, GLuint> texCache
  nextTex,   \* next texture name glGenTextures hands out
  boundTex,  \* GL: texture bound to GL_TEXTURE_2D
  depthTest, \* GL: GL_DEPTH_TEST enabled
  blend,     \* GL: GL_BLEND enabled
  depthMask, \* GL: depth write mask
  mi,        \* frame loop: index of the next mesh of the current pass
  frames,    \* number of frames begun
  glLog,     \* GL calls of the current frame (clear, draws, swap)
  stderr,    \* what the process has printed to stderr, in order
  uploads,   \* history: glTexImage2D calls per path
  handles    \* history: values loadTex returned, per path, in call order

vars == <<pc, parseOK, S, si, meshes, texCache, nextTex, boundTex, depthTest,
          blend, depthMask, mi, frames, glLog, stderr, uploads, handles>>

Init ==
  /\ pc = "main"
  /\ parseOK \in BOOLEAN
  /\ S \in Files
  /\ si = 1
  /\ meshes = <<>>
  /\ texCache = <<>>
  /\ nextTex = 1
  /\ boundTex = 0
  /\ depthTest = FALSE
  /\ blend = FALSE
  /\ depthMask = TRUE
  /\ mi = 1
  /\ frames = 0
  /\ glLog = <<>>
  /\ stderr = <<>>
  /\ uploads = [p \in Paths |-> 0]
  /\ handles = [p \in Paths |-> <<>>]

\* ------------------------------------------------------------ loadTex
\* stbi_load(f, ...) returns non-null iff the file at f decodes.
stbi_load(f) == f \in Decodable

\* loadTex without the cache lookup of line 90.
loadTexNoLookup(f, cache, gen) ==
  IF ~stbi_load(f)
  THEN [ret |-> 0, cache |-> cache, gen |-> gen, uploaded |-> FALSE, failed |-> TRUE]
  ELSE [ret |-> gen, cache |-> [p \in DOMAIN cache \cup {f} |-> IF p = f THEN gen ELSE cache[p]],
        gen |-> gen + 1, uploaded |-> TRUE, failed |-> FALSE]

\* loadTex(f) run on cache contents `cache` with glGenTextures about to
\* hand out `gen`: the returned handle, the cache and generator afterwards,
\* whether glTexImage2D was called and whether "Failed to load" was printed.
loadTex(f, cache, gen) ==
  IF f \in DOMAIN cache
  THEN [ret |-> cache[f], cache |-> cache, gen |-> gen, uploaded |-> FALSE, failed |-> FALSE]
  ELSE IF ~stbi_load(f)
  THEN [ret |-> 0, cache |-> cache, gen |-> gen, uploaded |-> FALSE, failed |-> TRUE]
  ELSE [ret |-> gen, cache |-> [p \in DOMAIN cache \cup {f} |-> IF p = f THEN gen ELSE cache[p]],
        gen |-> gen + 1, uploaded |-> TRUE, failed |-> FALSE]

\* ------------------------------------------------------------ loadOBJ
\* int mid = material_ids.empty() ? -1 : material_ids[0]
MaterialId(shape) ==
  IF shape.material_ids = <<>> THEN -1 ELSE shape.material_ids[1]

\* std::string matName = mid >= 0 ? M[mid].name : std::string()
MaterialName(mid) == IF mid >= 0 THEN M[mid + 1].name ELSE ""

\* The skip test with the material-name half left out.
SkippedByShapeNameOnly(shape, matName) == shape.name = "Water"

\* if (shape.name == "Water" || matName == "water") continue;
Skipped(shape, matName) == shape.name = "Water" \/ matName = "water"

\* The threshold test with <= in place of <.
IsTransparentInclusive(opacity) == opacity <= 999

\* mesh.transparent = mesh.opacity < 0.999f
IsTransparent(opacity) == opacity < 999

\* The else branch of line 148 left out: no UV for a vertex without texcoord.
VertexUVNoDefault(idx) ==
  IF idx.texcoord_index >= 0
  THEN << A.texcoords[2 * idx.texcoord_index + 1],
          1000 - A.texcoords[2 * idx.texcoord_index + 2] >>
  ELSE << >>

\* The two floats pushed to UV for one index_t: (u, 1 - v), or (0, 0).
VertexUV(idx) ==
  IF idx.texcoord_index >= 0
  THEN << A.texcoords[2 * idx.texcoord_index + 1],
          1000 - A.texcoords[2 * idx.texcoord_index + 2] >>
  ELSE << 0, 0 >>

\* The three floats pushed to P for one index_t.
VertexP(idx) ==
  << A.vertices[3 * idx.vertex_index + 1],
     A.vertices[3 * idx.vertex_index + 2],
     A.vertices[3 * idx.vertex_index + 3] >>

\* for (int v = 0; v < fv; ++v) { ... }  on the face starting at off.
RECURSIVE FaceLoop(_, _, _, _, _)
FaceLoop(shape, off, v, fv, acc) ==
  IF v >= fv THEN acc
  ELSE LET idx == shape.indices[off + v + 1]
       IN FaceLoop(shape, off, v + 1, fv,
                   [P |-> acc.P \o VertexP(idx), UV |-> acc.UV \o VertexUV(idx)])

\* for (size_t f = 0; f < num_face_vertices.size(); ++f) { ...; off += fv; }
RECURSIVE ShapeLoop(_, _, _, _)
ShapeLoop(shape, f, off, acc) ==
  IF f > Len(shape.num_face_vertices) THEN acc
  ELSE LET fv == shape.num_face_vertices[f]
       IN ShapeLoop(shape, f + 1, off + fv, FaceLoop(shape, off, 0, fv, acc))

\* The vectors P and UV of one shape.
ExpandFaces(shape) == ShapeLoop(shape, 1, 0, [P |-> <<>>, UV |-> <<>>])

\* Whether the shape's material names a diffuse texture (line 129).
HasTexName(mid) == mid >= 0 /\ M[mid + 1].diffuse_texname # ""

\* The Mesh of lines 118-152 for shape number i; tex is what loadTex returned
\* (read only when the material names a texture).  vboPos and vboUV stand
\* for the contents uploaded to those buffers; shape is the history of
\* which shape the mesh was built from.
BuildMesh(i, shape, mid, tex) ==
  LET buf == ExpandFaces(shape)
      opacity == IF mid >= 0 THEN M[mid + 1].dissolve ELSE 1000
  IN [ shape |-> i,
       kd |-> IF mid >= 0 THEN M[mid + 1].diffuse ELSE <<1000, 1000, 1000>>,
       opacity |-> opacity,
       transparent |-> IF mid >= 0 THEN IsTransparent(opacity) ELSE FALSE,
       tex |-> IF HasTexName(mid) THEN tex ELSE 0,
       hasTex |-> HasTexName(mid),
       vboPos |-> buf.P,
       vboUV |-> buf.UV,
       verts |-> Len(buf.P) \div 3 ]

\* meshes.push_back(mesh) done at the wrong end.
push_front(v, m) == <<m>> \o v

\* meshes.push_back(mesh)
push_back(v, m) == Append(v, m)

\* main, lines 192-209: GL state set-up and the shader program; a shader
\* that fails to compile or link ends the process (exit(1)).
Setup ==
  /\ pc = "main"
  /\ depthTest' = TRUE
  /\ blend' = TRUE
  /\ \E shaderOK \in BOOLEAN :
        IF shaderOK
        THEN pc' = "loadOBJ" /\ stderr' = stderr
        ELSE pc' = "exited" /\ stderr' = Append(stderr, <<"Shader error", "">>)
  /\ UNCHANGED <<parseOK, S, si, meshes, texCache, nextTex, boundTex, depthMask,
                 mi, frames, glLog, uploads, handles>>

\* LoadObj with the exit(1) of line 111 left out.
LoadObjNoExit ==
  /\ pc = "loadOBJ"
  /\ pc' = "shapes"
  /\ si' = 1
  /\ UNCHANGED <<parseOK, S, meshes, texCache, nextTex, boundTex, depthTest, blend,
                 depthMask, mi, frames, glLog, stderr, uploads, handles>>

\* loadOBJ, lines 106-112: parse the file, exit(1) when it fails.
LoadObj ==
  /\ pc = "loadOBJ"
  /\ IF parseOK
     THEN pc' = "shapes" /\ stderr' = stderr
     ELSE pc' = "exited" /\ stderr' = Append(stderr, <<"LoadObj", "warn err">>)
  /\ si' = 1
  /\ UNCHANGED <<parseOK, S, meshes, texCache, nextTex, boundTex, depthTest, blend,
                 depthMask, mi, frames, glLog, uploads, handles>>

\* loadOBJ, lines 113-167: one iteration of the loop over the shapes.
ImportShape ==
  /\ pc = "shapes"
  /\ si <= Len(S)
  /\ LET shape == S[si]
         mid == MaterialId(shape)
     IN IF Skipped(shape, MaterialName(mid))
        THEN UNCHANGED <<meshes, texCache, nextTex, boundTex, stderr, uploads, handles>>
        ELSE IF HasTexName(mid)
        THEN LET f == M[mid + 1].diffuse_texname
                 r == loadTex(f, texCache, nextTex)
             IN /\ texCache' = r.cache
                /\ nextTex' = r.gen
                /\ boundTex' = IF r.uploaded THEN r.ret ELSE boundTex
                /\ stderr' = IF r.failed THEN Append(stderr, <<"Failed to load", f>>) ELSE stderr
                /\ uploads' = [uploads EXCEPT ![f] = @ + (IF r.uploaded THEN 1 ELSE 0)]
                /\ handles' = [handles EXCEPT ![f] = Append(@, r.ret)]
                /\ meshes' = push_back(meshes, BuildMesh(si, shape, mid, r.ret))
        ELSE /\ meshes' = push_back(meshes, BuildMesh(si, shape, mid, 0))
             /\ UNCHANGED <<texCache, nextTex, boundTex, stderr, uploads, handles>>
  /\ si' = si + 1
  /\ UNCHANGED <<pc, parseOK, S, depthTest, blend, depthMask, mi, frames, glLog>>

\* loadOBJ returns; main lines 211-213 lead to the head of the frame loop.
ImportDone ==
  /\ pc = "shapes"
  /\ si > Len(S)
  /\ pc' = "loop"
  /\ UNCHANGED <<parseOK, S, si, meshes, texCache, nextTex, boundTex, depthTest,
                 blend, depthMask, mi, frames, glLog, stderr, uploads, handles>>

\* ------------------------------------------------------- the frame loop
GlCall(op, i) ==
  [ op |-> op, mesh |-> i, depthMask |-> depthMask, depthTest |-> depthTest,
    blend |-> blend, useTexture |-> FALSE, tex |-> boundTex, count |-> 0 ]

\* drawMesh(m): the uniforms, the texture binding and the glDrawArrays call,
\* with the GL state they are issued under.
drawMesh(i) ==
  LET m == meshes[i]
  IN [ op |-> "draw", mesh |-> i, depthMask |-> depthMask, depthTest |-> depthTest,
       blend |-> blend, useTexture |-> m.hasTex,
       tex |-> IF m.hasTex THEN m.tex ELSE boundTex, count |-> m.verts ]

\* The first pass drawing every mesh.
InOpaquePassAll(m) == TRUE

\* Line 225: if (!m.transparent) drawMesh(...)
InOpaquePass(m) == ~m.transparent

\* The second pass drawing nothing.
InTransparentPassNone(m) == FALSE

\* Line 227: if (m.transparent) drawMesh(...)
InTransparentPass(m) == m.transparent

\* glfwWindowShouldClose(w) is true: the loop ends, glfwTerminate, return 0.
WindowClose ==
  /\ pc = "loop"
  /\ pc' = "done"
  /\ UNCHANGED <<parseOK, S, si, meshes, texCache, nextTex, boundTex, depthTest,
                 blend, depthMask, mi, frames, glLog, stderr, uploads, handles>>

\* Lines 214-224: a new frame starts; glClear, the MVP upload.
FrameBegin ==
  /\ pc = "loop"
  /\ frames < MaxFrames
  /\ frames' = frames + 1
  /\ glLog' = << GlCall("clear", 0) >>
  /\ mi' = 1
  /\ pc' = "opaque"
  /\ UNCHANGED <<parseOK, S, si, meshes, texCache, nextTex, boundTex, depthTest,
                 blend, depthMask, stderr, uploads, handles>>

\* One iteration of a pass: draw meshes[mi] when the pass takes it.
PassStep(taken) ==
  /\ mi <= Len(meshes)
  /\ IF taken
     THEN /\ glLog' = Append(glLog, drawMesh(mi))
          /\ boundTex' = IF meshes[mi].hasTex THEN meshes[mi].tex ELSE boundTex
     ELSE UNCHANGED <<glLog, boundTex>>
  /\ mi' = mi + 1
  /\ UNCHANGED <<pc, parseOK, S, si, meshes, texCache, nextTex, depthTest, blend,
                 depthMask, frames, stderr, uploads, handles>>

\* Line 225: one iteration of the opaque pass.
OpaqueStep ==
  /\ pc = "opaque"
  /\ mi <= Len(meshes)
  /\ PassStep(InOpaquePass(meshes[mi]))

\* Line 226: glDepthMask(GL_FALSE) after the opaque pass.
DepthMaskOff ==
  /\ pc = "opaque"
  /\ mi > Len(meshes)
  /\ depthMask' = FALSE
  /\ mi' = 1
  /\ pc' = "transparent"
  /\ UNCHANGED <<parseOK, S, si, meshes, texCache, nextTex, boundTex, depthTest,
                 blend, frames, glLog, stderr, uploads, handles>>

\* Line 227: one iteration of the transparent pass.
TransparentStep ==
  /\ pc = "transparent"
  /\ mi <= Len(meshes)
  /\ PassStep(InTransparentPass(meshes[mi]))

\* The end of the transparent pass without the glDepthMask(GL_TRUE).
DepthMaskLeftOff ==
  /\ pc = "transparent"
  /\ mi > Len(meshes)
  /\ pc' = "swap"
  /\ UNCHANGED <<parseOK, S, si, meshes, texCache, nextTex, boundTex, depthTest,
                 blend, depthMask, mi, frames, glLog, stderr, uploads, handles>>

\* Line 228: glDepthMask(GL_TRUE) after the transparent pass.
DepthMaskOn ==
  /\ pc = "transparent"
  /\ mi > Len(meshes)
  /\ depthMask' = TRUE
  /\ pc' = "swap"
  /\ UNCHANGED <<parseOK, S, si, meshes, texCache, nextTex, boundTex, depthTest,
                 blend, mi, frames, glLog, stderr, uploads, handles>>

\* Lines 229-230: glfwSwapBuffers, glfwPollEvents; back to the loop head.
SwapBuffers ==
  /\ pc = "swap"
  /\ glLog' = Append(glLog, GlCall("swap", 0))
  /\ pc' = "loop"
  /\ UNCHANGED <<parseOK, S, si, meshes, texCache, nextTex, boundTex, depthTest,
                 blend, depthMask, mi, frames, stderr, uploads, handles>>

Next ==
  \/ Setup
  \/ LoadObj
  \/ ImportShape
  \/ ImportDone
  \/ WindowClose
  \/ FrameBegin
  \/ OpaqueStep
  \/ DepthMaskOff
  \/ TransparentStep
  \/ DepthMaskOn
  \/ SwapBuffers

Spec == Init /\ [][Next]_vars

\* ================================================================ claims
Indices(n) == [i \in 1..n |-> i]

\* Number of shapes loadOBJ has gone through.
Processed == IF pc = "shapes" THEN si - 1 ELSE IF pc \in {"main", "loadOBJ", "exited"} THEN 0 ELSE Len(S)

InFrameLoop == pc \in {"loop", "opaque", "transparent", "swap"}

MidOf(j) == IF S[j].material_ids = <<>> THEN -1 ELSE S[j].material_ids[1]
MatNameOf(j) == IF MidOf(j) >= 0 THEN M[MidOf(j) + 1].name ELSE ""
TexNameOf(j) == IF MidOf(j) >= 0 THEN M[MidOf(j) + 1].diffuse_texname ELSE ""

SameHandles(p) == \A i \in 1..Len(handles[p]) : handles[p][i] = handles[p][1]

\* C1 as stated: resolving any path twice returns the identical handle and
\* makes exactly one GPU upload in total, whether the image decodes or not.
C1_Original ==
  \A p \in Paths :
    Len(handles[p]) >= 2 => SameHandles(p) /\ uploads[p] = 1

\* C1 amended: every call of loadTex on a path returns the same handle; a
\* path that decodes is uploaded exactly once (and its handle is the cached,
\* non-zero texture name), a path that does not decode is never uploaded and
\* resolves to the handle 0; no path is uploaded more than once.
C1_ResolveOnce ==
  \A p \in Paths :
    /\ uploads[p] <= 1
    /\ Len(handles[p]) >= 1 =>
         /\ SameHandles(p)
         /\ IF p \in Decodable
            THEN uploads[p] = 1 /\ p \in DOMAIN texCache
                 /\ handles[p][1] = texCache[p] /\ handles[p][1] # 0
            ELSE uploads[p] = 0 /\ p \notin DOMAIN texCache /\ handles[p][1] = 0
    /\ Len(handles[p]) = 0 => uploads[p] = 0

C1_Witness ==
  /\ Len(handles["glass.png"]) = 2
  /\ uploads["glass.png"] = 1
  /\ Len(meshes) = 2

\* C2 as stated: a DrawUnit whose material's diffuse texture failed to decode
\* is marked untextured (hasTex false) and is drawn with useTexture unset.
C2_FailedTextureUntextured ==
  /\ \A k \in 1..Len(meshes) :
       (TexNameOf(meshes[k].shape) # "" /\ TexNameOf(meshes[k].shape) \notin Decodable)
         => ~meshes[k].hasTex
  /\ \A e \in 1..Len(glLog) :
       (glLog[e].op = "draw"
        /\ TexNameOf(meshes[glLog[e].mesh].shape) # ""
        /\ TexNameOf(meshes[glLog[e].mesh].shape) \notin Decodable)
         => ~glLog[e].useTexture

ExclusionSet == {"Water", "water"}

\* C3 as stated: a shape whose name or whose material's name is "Water" or
\* "water" has no DrawUnit in the Scene.
C3_Original ==
  \A j \in 1..Processed :
    (S[j].name \in ExclusionSet \/ MatNameOf(j) \in ExclusionSet)
      => \A k \in 1..Len(meshes) : meshes[k].shape # j

\* C3 amended: a shape named exactly "Water", or whose material is named
\* exactly "water", has no DrawUnit in the Scene.
C3_SkipRule ==
  \A j \in 1..Processed :
    (S[j].name = "Water" \/ MatNameOf(j) = "water")
      => \A k \in 1..Len(meshes) : meshes[k].shape # j

C3_Witness ==
  /\ pc = "loop"
  /\ Len(S) = 2
  /\ S[1].name = "Glass" /\ MatNameOf(1) = "water"
  /\ Len(meshes) = 1 /\ meshes[1].shape = 2

\* C4: within a frame no opaque DrawUnit is drawn after a transparent one,
\* depth write is off at exactly the draws of transparent DrawUnits, and
\* depth test and blending are on at every call of the frame.
C4_OpaqueBeforeTransparent ==
  /\ \A i, j \in 1..Len(glLog) :
       (i < j /\ glLog[i].op = "draw" /\ glLog[j].op = "draw"
        /\ ~meshes[glLog[j].mesh].transparent)
         => ~meshes[glLog[i].mesh].transparent
  /\ \A e \in 1..Len(glLog) :
       /\ glLog[e].op = "draw" => (glLog[e].depthMask = ~meshes[glLog[e].mesh].transparent)
       /\ glLog[e].depthTest /\ glLog[e].blend
  /\ InFrameLoop => depthTest /\ blend

C4_Witness ==
  /\ pc = "swap"
  /\ Len(meshes) = 2
  /\ meshes[1].transparent /\ ~meshes[2].transparent
  /\ Len(glLog) = 3
  /\ glLog[2].mesh = 2 /\ glLog[3].mesh = 1

\* C5: a DrawUnit built from a material is transparent iff the dissolve is
\* below 0.999 and its opacity is the dissolve; one built from a shape with
\* no material is white, fully opaque, untextured and not transparent.
C5_MaterialAttributes ==
  \A k \in 1..Len(meshes) :
    LET mid == MidOf(meshes[k].shape)
    IN IF mid >= 0
       THEN /\ meshes[k].opacity = M[mid + 1].dissolve
            /\ meshes[k].transparent <=> (M[mid + 1].dissolve < 999)
       ELSE /\ meshes[k].kd = <<1000, 1000, 1000>>
            /\ meshes[k].opacity = 1000
            /\ ~meshes[k].hasTex
            /\ ~meshes[k].transparent

C5_Witness ==
  /\ Len(meshes) = 2
  /\ MidOf(meshes[1].shape) = 1 /\ meshes[1].opacity = 999 /\ ~meshes[1].transparent
  /\ MidOf(meshes[2].shape) = -1

UVRecords(m) == Len(m.vboUV) \div 2
PositionRecords(m) == Len(m.vboPos) \div 3

\* C6 as stated: every DrawUnit has as many uv records as position records,
\* verts equals that number, and the number is a multiple of 3.
C6_Original ==
  \A k \in 1..Len(meshes) :
    /\ UVRecords(meshes[k]) = PositionRecords(meshes[k])
    /\ meshes[k].verts = PositionRecords(meshes[k])
    /\ meshes[k].verts % 3 = 0

\* C6 amended: every DrawUnit has as many uv records as position records and
\* verts equals that number, which is the sum of the vertex counts of the
\* shape's faces (a multiple of 3 when every face's vertex count is one).
C6_VertexCounts ==
  \A k \in 1..Len(meshes) :
    LET nfv == S[meshes[k].shape].num_face_vertices
    IN /\ Len(meshes[k].vboPos) = 3 * Sum(nfv)
       /\ Len(meshes[k].vboUV) = 2 * Sum(nfv)
       /\ UVRecords(meshes[k]) = PositionRecords(meshes[k])
       /\ meshes[k].verts = PositionRecords(meshes[k])
       /\ (\A f \in 1..Len(nfv) : nfv[f] % 3 = 0) => meshes[k].verts % 3 = 0

C6_Witness ==
  /\ Len(meshes) = 1
  /\ S[1].num_face_vertices = <<4, 3>>
  /\ S[1].indices[1].texcoord_index = -1
  /\ meshes[1].verts = 7

Retained(j) == S[j].name # "Water" /\ MatNameOf(j) # "water"

\* C7: the Scene holds one DrawUnit per shape the importer retains, in file
\* order; "Water" followed by "Glass" with dissolve 0.5 and a texture that
\* decodes gives a Scene of one transparent, textured DrawUnit.
C7_SceneOrder ==
  /\ [k \in 1..Len(meshes) |-> meshes[k].shape]
       = SelectSeq(Indices(Processed), LAMBDA j : Retained(j))
  /\ (/\ InFrameLoop
      /\ Len(S) = 2
      /\ S[1].name = "Water"
      /\ S[2].name = "Glass"
      /\ MidOf(2) >= 0
      /\ M[MidOf(2) + 1].dissolve = 500
      /\ TexNameOf(2) \in Decodable)
       => Len(meshes) = 1 /\ meshes[1].transparent /\ meshes[1].hasTex

C7_Witness ==
  /\ pc = "loop"
  /\ Len(S) = 2
  /\ S[1].name = "Water"
  /\ S[2].name = "Glass" /\ MidOf(2) = 2
  /\ Len(meshes) = 1 /\ meshes[1].transparent /\ meshes[1].hasTex

NoDecodeFailure == \A e \in 1..Len(stderr) : stderr[e][1] # "Failed to load"

\* C8: a scene file that does not parse ends the process in the import with
\* an empty Scene, no frame and no draw call; the process never ends on a
\* texture that fails to decode, and the import then leads to the frame loop.
C8_FatalOnlyOnParse ==
  /\ [](/\ (~parseOK /\ pc \notin {"main", "loadOBJ"}) => pc = "exited"
        /\ pc = "exited" =>
             /\ meshes = <<>> /\ frames = 0 /\ glLog = <<>>
             /\ NoDecodeFailure
             /\ \A p \in Paths : handles[p] = <<>>)
  /\ [][(pc = "shapes" /\ pc' # "shapes") => pc' = "loop"]_vars

C8_Witness ==
  /\ pc = "exited"
  /\ ~parseOK
  /\ Len(S) = 2
  /\ stderr = << <<"LoadObj", "warn err">> >>

Draws == SelectSeq(glLog, LAMBDA e : e.op = "draw")

\* C9: a finished frame has drawn the DrawUnits with opacity >= 0.999 in
\* Scene order, then those with opacity < 0.999 in Scene order, each once;
\* no step of the frame loop changes the Scene or the texture cache.
C9_EachDrawnOnce ==
  /\ [](pc = "loop" /\ frames > 0 =>
          [e \in 1..Len(Draws) |-> Draws[e].mesh]
            = SelectSeq(Indices(Len(meshes)), LAMBDA i : meshes[i].opacity >= 999)
              \o SelectSeq(Indices(Len(meshes)), LAMBDA i : meshes[i].opacity < 999))
  /\ [][InFrameLoop => (meshes' = meshes /\ texCache' = texCache)]_vars

C9_Witness ==
  /\ pc = "loop"
  /\ frames = 2
  /\ Len(meshes) = 2
  /\ meshes[1].opacity < 999 /\ meshes[2].opacity < 999
  /\ Len(Draws) = 2

\* C10: depth write is enabled whenever a frame starts, throughout the
\* opaque pass, and when the buffers are swapped, in every frame.
C10_DepthWriteRestored ==
  /\ pc \in {"loop", "opaque", "swap", "done"} => depthMask
  /\ pc = "opaque" => \A e \in 1..Len(glLog) : glLog[e].depthMask
  /\ \A e \in 1..Len(glLog) : glLog[e].op \in {"clear", "swap"} => glLog[e].depthMask

C10_Witness ==
  /\ pc = "opaque"
  /\ frames = 2
  /\ Len(meshes) >= 1
  /\ \A k \in 1..Len(meshes) : ~meshes[k].transparent
  /\ mi > Len(meshes)

====
